---- MODULE Spec2Model ----
(***************************************************************************)
(* AudioDuckingManager (windows/audio_ducking_manager.{h,cpp}).            *)
(*                                                                         *)
(* The coordinator's threads run Initialize() and the destructor under     *)
(* mutex_; the platform creates audio sessions and invokes the registered  *)
(* SessionNotifier::OnSessionCreated callbacks on a thread of its own.     *)
(* Reference counts are the references this component holds (baseline 0).  *)
(* SpecIUnknown runs the notifier's IUnknown methods on their own.         *)
(***************************************************************************)
EXTENDS Integers, Sequences, FiniteSets, TLC

\* ---------------------------------------------------------------- bounds
NumEndpoints == 2
MaxInit == 2
MaxSessions == 2
NumThreads == 2
MaxNotifiers == 2
MaxRef == 3

Endpoints == 1..NumEndpoints
Threads == 1..NumThreads
None == 0

\* ------------------------------------------------------- platform values
\* ::GetCurrentProcessId() and the id of some other process.
MyPid == 1
ForeignPid == MyPid + 1

\* HRESULTs of ::CoInitializeEx that the code tells apart.
HResults == {"S_OK", "S_FALSE", "RPC_E_CHANGED_MODE", "E_FAIL"}
SUCCEEDED(hr) == hr \in {"S_OK", "S_FALSE"}

\* What a session answers to the calls made on it:
\*   ok      every call succeeds
\*   no_pid  its owning process id cannot be read: QueryInterface for
\*           IAudioSessionControl2 or GetProcessId fails
SessionKinds ==
  { [pid |-> MyPid, access |-> "ok"],
    [pid |-> ForeignPid, access |-> "ok"],
    [pid |-> MyPid, access |-> "no_pid"] }

VARIABLES
  pc,               \* [Threads -> position in Initialize / ~AudioDuckingManager]
  mutex_,           \* None, or the thread holding the lock
  com_initialized_, \* the member flag
  registrations_,   \* sequence of [manager2, notifier]
  lifecycle,        \* "alive" | "destroying" | "destroyed"
  idx,              \* [Threads -> loop index i / registration index]
  manager2,         \* [Threads -> the local manager2 of SetupForAllRenderDevices]
  held,             \* [Threads -> transient handles held by the call]
  sessionHeld,      \* [Callers -> session handles held, by kind]
  comCalls,         \* history: successful CoInitializeEx and CoUninitialize
                    \* calls of this instance, in order, with their thread
  qi,               \* the last QueryInterface call: its arguments, its result
                    \* and the caller's interface pointer
  mgrRef,           \* [Endpoints -> references held on the endpoint's container]
  ref_count_,       \* sequence: ref_count_ of every SessionNotifier created
  deleted,          \* notifiers on which `delete this` ran
  subs,             \* platform: live subscriptions [mgr, notifier]
  sessions,         \* platform: sequence of session records; the field gap
                    \* is history: a session of this process, with a
                    \* readable id, created between an endpoint's pass and
                    \* its RegisterSessionNotification
  pending,          \* platform: queue of callbacks not yet invoked
  running,          \* platform: callbacks invoked, body not yet run
  delivered,        \* history: callbacks that returned
  initCalls,        \* history: Initialize calls started
  initReturned,     \* history: Initialize calls returned
  call,             \* history: [Threads -> what the call in progress did so far]
  anyFailure,       \* history: some endpoint turn of some call registered nothing
  enumerated,       \* history: some call got the collection of endpoints
  atDestroy,        \* history: registrations_ when the destructor started
  teardown          \* history: what the destructor did, in order

coordVars == <<pc, mutex_, com_initialized_, registrations_, lifecycle, idx,
               manager2, held, mgrRef, ref_count_, deleted, subs>>
platVars == <<sessions, pending, running, delivered>>
histVars == <<initCalls, initReturned, call, anyFailure, enumerated, atDestroy,
              teardown>>
vars == <<coordVars, platVars, histVars, sessionHeld, comCalls, qi>>

\* The platform's notification thread, and whoever can hold session handles.
NotifyThread == 0
Callers == Threads \cup {NotifyThread}
NoHandles == [sessionEnumerator |-> 0, control |-> 0, control2 |-> 0]

\* No QueryInterface call was made; the caller's pointer is null.
NoQuery == [notifier |-> None, riid |-> "none", ppvNull |-> FALSE,
            hr |-> "none", out |-> None]

\* History of one Initialize call: the state it found and what each step did.
NoCall == [regs0 |-> 0, subs0 |-> {}, mgrRef0 |-> <<>>, notifiers0 |-> 0,
           unavailable |-> "no", skipped |-> {}, activated |-> {},
           snapshot |-> {}, registered |-> {}, refused |-> {}]

Init ==
  /\ pc = [t \in Threads |-> "idle"]
  /\ mutex_ = None
  /\ com_initialized_ = FALSE
  /\ registrations_ = <<>>
  /\ lifecycle = "alive"
  /\ idx = [t \in Threads |-> 0]
  /\ manager2 = [t \in Threads |-> None]
  /\ held = [t \in Threads |-> 0]
  /\ sessionHeld = [c \in Callers |-> NoHandles]
  /\ comCalls = <<>>
  /\ qi = NoQuery
  /\ mgrRef = [e \in Endpoints |-> 0]
  /\ ref_count_ = <<>>
  /\ deleted = {}
  /\ subs = {}
  /\ sessions = <<>>
  /\ pending = <<>>
  /\ running = {}
  /\ delivered = {}
  /\ initCalls = 0
  /\ initReturned = 0
  /\ call = [t \in Threads |-> NoCall]
  /\ anyFailure = FALSE
  /\ enumerated = FALSE
  /\ atDestroy = <<>>
  /\ teardown = <<>>

\* ------------------------------------------------ per-session operations
\* control2->SetDuckingPreference(TRUE): the session's preference becomes
\* opted-out. The code ignores the call's result; the platform is taken to
\* apply it. A session is created with the preference unset.
SetDuckingPreference(s) == [s EXCEPT !.pref = TRUE]

\* SUCCEEDED(QueryInterface(IAudioSessionControl2)) and
\* SUCCEEDED(control2->GetProcessId(&pid))
PidReadable(s) == s.access = "ok"

\* The test inverted: pid != my_pid.
IsMyPid_Inverted(pid) == pid # MyPid

\* pid == my_pid (ApplyOptOutToExistingSessions)
IsMyPid(pid) == pid = MyPid

\* The test left out: every new session is opted out.
IsCurrentProcess_Always(pid) == TRUE

\* pid == ::GetCurrentProcessId() (OnSessionCreated)
IsCurrentProcess(pid) == pid = MyPid

\* The body of ApplyOptOutToExistingSessions' loop for a session GetSession
\* returned: QueryInterface, GetProcessId, the test, SetDuckingPreference.
ApplyOptOutToSession(s) ==
  IF PidReadable(s) /\ IsMyPid(s.pid) THEN SetDuckingPreference(s) ELSE s

\* ApplyOptOutToExistingSessions(manager2) on the sessions S of the platform:
\* enumOk is GetSessionEnumerator and GetCount succeeding, got the sessions
\* for which GetSession(i) succeeds.
ApplyOptOutToExistingSessions(S, e, enumOk, got) ==
  IF ~enumOk THEN S
  ELSE [i \in DOMAIN S |->
          IF S[i].ep = e /\ i \in got THEN ApplyOptOutToSession(S[i]) ELSE S[i]]

\* SafeRelease(&control2) left out of the loop.
ReleasedByPass_Control2Forgotten(enumGot, enumOk, got, got2) ==
  [sessionEnumerator |-> IF enumGot THEN 1 ELSE 0,
   control |-> IF enumOk THEN Cardinality(got) ELSE 0,
   control2 |-> 0]

\* The handles ApplyOptOutToExistingSessions acquires: the session enumerator
\* if GetSessionEnumerator gave one (enumGot); when GetCount succeeded too
\* (enumOk), a control for every session GetSession returned (got) and a
\* control-2 for those whose QueryInterface succeeded (got2).
AcquiredByPass(enumGot, enumOk, got, got2) ==
  [sessionEnumerator |-> IF enumGot THEN 1 ELSE 0,
   control |-> IF enumOk THEN Cardinality(got) ELSE 0,
   control2 |-> IF enumOk THEN Cardinality(got2) ELSE 0]

\* The handles it releases: SafeRelease(&enumerator) on each of the three
\* ways out; in every turn of the loop SafeRelease(&control), and
\* SafeRelease(&control2) inside the turn of a session GetSession returned.
\* SafeRelease does nothing on a null handle.
ReleasedByPass(enumGot, enumOk, got, got2) ==
  [sessionEnumerator |-> IF enumGot THEN 1 ELSE 0,
   control |-> IF enumOk THEN Cardinality(got) ELSE 0,
   control2 |-> IF enumOk THEN Cardinality({i \in got : i \in got2}) ELSE 0]

\* OnSessionCreated acquires control2 if QueryInterface succeeds (qiOk) and
\* its SafeRelease(&control2) releases it if it is not null; new_session is
\* the caller's.
AcquiredByCallback(qiOk) ==
  [sessionEnumerator |-> 0, control |-> 0, control2 |-> IF qiOk THEN 1 ELSE 0]
ReleasedByCallback(qiOk) ==
  [sessionEnumerator |-> 0, control |-> 0, control2 |-> IF qiOk THEN 1 ELSE 0]

\* Handles held after acquiring a and releasing r.
NetHandles(h, a, r) == [k \in DOMAIN h |-> h[k] + a[k] - r[k]]

\* The callback returns S_OK without touching the session.
OnSessionCreatedBody_NoSet(s) == s

\* SessionNotifier::OnSessionCreated(new_session), new_session non-null.
OnSessionCreatedBody(s) ==
  IF PidReadable(s)
    THEN IF IsCurrentProcess(s.pid) THEN SetDuckingPreference(s) ELSE s
    ELSE s

SessionsOn(e) == {i \in DOMAIN sessions : sessions[i].ep = e}

\* --------------------------------------------------- notifier ref counts
\* AddRef returns without counting the reference.
AddRef_NotCounted(rc, n) == rc

\* SessionNotifier::AddRef
AddRef(rc, n) == [rc EXCEPT ![n] = @ + 1]
\* Release returns without counting down.
Release_NotCounted(rc, n) == rc

\* SessionNotifier::Release: --ref_count_, and `delete this` at zero
Release(rc, n) == [rc EXCEPT ![n] = @ - 1]
DeletedBy(rc, n) == IF Release(rc, n)[n] = 0 THEN {n} ELSE {}

\* ------------------------------------------------- notifier's IUnknown
\* Interface ids a caller may ask for: the two the notifier implements and
\* two it does not.
InterfaceIds == {"IUnknown", "IAudioSessionNotification",
                 "IAudioSessionEvents", "IMarshal"}

\* Every interface id is answered.
Supports_Everything(riid) == TRUE

\* riid == __uuidof(IUnknown) || riid == __uuidof(IAudioSessionNotification)
Supports(riid) == riid \in {"IUnknown", "IAudioSessionNotification"}

\* SessionNotifier::QueryInterface(riid, ppv) on notifier n: the HRESULT, the
\* caller's pointer afterwards (out0 before; ppvNull: ppv is null and there
\* is nothing to write to) and the reference counts afterwards.
QueryInterfaceResult(rc, n, riid, ppvNull, out0) ==
  IF ppvNull THEN [hr |-> "E_POINTER", out |-> out0, rc |-> rc]
  ELSE IF Supports(riid)
         THEN [hr |-> "S_OK", out |-> n, rc |-> AddRef(rc, n)]
         ELSE [hr |-> "E_NOINTERFACE", out |-> None, rc |-> rc]

\* What the IUnknown calls leave alone.
coordinatorVars == <<pc, mutex_, com_initialized_, registrations_, lifecycle,
                     idx, manager2, held, mgrRef, subs, platVars, histVars,
                     sessionHeld, comCalls>>

\* new SessionNotifier(): ref_count_(1)
NewSessionNotifier ==
  /\ Len(ref_count_) < MaxNotifiers
  /\ ref_count_' = Append(ref_count_, 1)
  /\ UNCHANGED <<deleted, qi, coordinatorVars>>

\* A holder of a reference calls QueryInterface on a live notifier; the
\* caller's pointer is the one the last call left.
QueryInterface(n, riid, ppvNull) ==
  /\ n \in DOMAIN ref_count_ \ deleted
  /\ ref_count_[n] < MaxRef
  /\ LET res == QueryInterfaceResult(ref_count_, n, riid, ppvNull, qi.out)
     IN /\ ref_count_' = res.rc
        /\ qi' = [notifier |-> n, riid |-> riid, ppvNull |-> ppvNull,
                  hr |-> res.hr, out |-> res.out]
  /\ UNCHANGED <<deleted, coordinatorVars>>

\* A holder of a reference calls Release on a live notifier.
ReleaseReference(n) ==
  /\ n \in DOMAIN ref_count_ \ deleted
  /\ ref_count_' = Release(ref_count_, n)
  /\ deleted' = deleted \cup DeletedBy(ref_count_, n)
  /\ UNCHANGED <<qi, coordinatorVars>>

\* ------------------------------------------------------------- Initialize
\* The lock is not taken.
LockFree_NoLock(m) == TRUE

\* std::lock_guard<std::mutex> lock(mutex_) goes on when no thread holds
\* the mutex.
LockFree(m) == m = None

\* CoInitializeEx is called on every Initialize.
NeedsCoInitialize_Always(flag) == TRUE

\* if (!com_initialized_)
NeedsCoInitialize(flag) == ~flag

\* Initialize(): lock_guard, then CoInitializeEx unless this instance did it.
Initialize(t) ==
  /\ lifecycle = "alive"
  /\ pc[t] = "idle"
  /\ LockFree(mutex_)
  /\ initCalls < MaxInit
  /\ mutex_' = t
  /\ initCalls' = initCalls + 1
  /\ IF NeedsCoInitialize(com_initialized_)
       THEN \E hr \in HResults :
              IF SUCCEEDED(hr)
                THEN /\ com_initialized_' = TRUE
                     /\ comCalls' = Append(comCalls, [op |-> "CoInitializeEx",
                                                      thread |-> t])
                ELSE UNCHANGED <<com_initialized_, comCalls>>
       ELSE UNCHANGED <<com_initialized_, comCalls>>
  /\ pc' = [pc EXCEPT ![t] = "setup"]
  /\ call' = [call EXCEPT ![t] = [NoCall EXCEPT !.regs0 = Len(registrations_),
                                                !.subs0 = subs,
                                                !.mgrRef0 = mgrRef,
                                                !.notifiers0 = Len(ref_count_)]]
  /\ UNCHANGED <<registrations_, lifecycle, idx, manager2, held, mgrRef,
                 ref_count_, deleted, subs, platVars, initReturned, anyFailure,
                 enumerated, atDestroy, teardown>>
  /\ UNCHANGED sessionHeld
  /\ UNCHANGED qi

\* SafeRelease(&enumerator) forgotten on the failure paths.
ReleasedOnUnavailable_Leak(createOk) == 0

\* The handles the two failure paths of SetupForAllRenderDevices release:
\* SafeRelease(&collection) finds null, SafeRelease(&enumerator) releases the
\* enumerator if CoCreateInstance gave one.
ReleasedOnUnavailable(createOk) == IF createOk THEN 1 ELSE 0

\* SetupForAllRenderDevices, up to the loop: CoCreateInstance and
\* EnumAudioEndpoints; on failure release and return.
SetupForAllRenderDevices(t) ==
  /\ pc[t] = "setup"
  /\ \E createOk, enumOk \in BOOLEAN :
       IF createOk /\ enumOk
         THEN /\ held' = [held EXCEPT ![t] = 2]
              /\ idx' = [idx EXCEPT ![t] = 1]
              /\ pc' = [pc EXCEPT ![t] = "device"]
              /\ enumerated' = TRUE
              /\ UNCHANGED <<call, anyFailure>>
         ELSE /\ held' = [held EXCEPT ![t] = (IF createOk THEN 1 ELSE 0)
                                              - ReleasedOnUnavailable(createOk)]
              /\ pc' = [pc EXCEPT ![t] = "return"]
              /\ call' = [call EXCEPT ![t].unavailable =
                             IF createOk THEN "EnumAudioEndpoints"
                                         ELSE "CoCreateInstance"]
              /\ anyFailure' = TRUE
              /\ UNCHANGED <<idx, enumerated>>
  /\ UNCHANGED <<mutex_, com_initialized_, registrations_, lifecycle, manager2,
                 mgrRef, ref_count_, deleted, subs, platVars, initCalls,
                 initReturned, atDestroy, teardown>>
  /\ UNCHANGED sessionHeld
  /\ UNCHANGED comCalls
  /\ UNCHANGED qi

\* A failing endpoint ends the loop (break instead of going on).
NextIndexAfterSkip_Break(i) == NumEndpoints + 1

\* for (UINT i = 0; i < count; ++i): the index after a turn that skipped
\* its endpoint.
NextIndexAfterSkip(i) == i + 1

\* One turn of the loop up to RegisterForNewSessions: collection->Item(i),
\* CreateSessionManagerForDevice (Activate), ApplyOptOutToExistingSessions.
\* A failing Item or Activate skips the endpoint (SafeRelease(&device), ++i).
SetupDevice(t) ==
  /\ pc[t] = "device"
  /\ idx[t] <= NumEndpoints
  /\ LET e == idx[t] IN
     \E itemOk, activateOk, enumGot, enumOk \in BOOLEAN,
        got \in SUBSET SessionsOn(e), got2 \in SUBSET SessionsOn(e) :
       IF itemOk /\ activateOk
         THEN /\ enumOk => enumGot
              /\ {i \in got : PidReadable(sessions[i])} \subseteq got2
              /\ got2 \subseteq got
              /\ sessionHeld' = [sessionHeld EXCEPT ![t] =
                   NetHandles(@, AcquiredByPass(enumGot, enumOk, got, got2),
                                 ReleasedByPass(enumGot, enumOk, got, got2))]
              /\ mgrRef' = [mgrRef EXCEPT ![e] = @ + 1]
              /\ manager2' = [manager2 EXCEPT ![t] = e]
              /\ held' = [held EXCEPT ![t] = @ + 1]
              /\ sessions' = ApplyOptOutToExistingSessions(sessions, e, enumOk, got)
              /\ call' = [call EXCEPT ![t].activated = @ \cup {e},
                                      ![t].snapshot = IF enumOk THEN got ELSE {}]
              /\ pc' = [pc EXCEPT ![t] = "register"]
              /\ UNCHANGED <<idx, anyFailure>>
         ELSE /\ enumGot /\ enumOk /\ got = {} /\ got2 = {}
              /\ idx' = [idx EXCEPT ![t] = NextIndexAfterSkip(@)]
              /\ call' = [call EXCEPT ![t].skipped = @ \cup {e}]
              /\ anyFailure' = TRUE
              /\ UNCHANGED <<mgrRef, manager2, held, sessionHeld, sessions, pc>>
  /\ UNCHANGED <<mutex_, com_initialized_, registrations_, lifecycle,
                 ref_count_, deleted, subs, pending, running, delivered,
                 initCalls, initReturned, enumerated, atDestroy, teardown>>
  /\ UNCHANGED comCalls
  /\ UNCHANGED qi

\* The record assigned instead of appended.
PushRegistration_Overwrite(regs, m, n) == <<[manager2 |-> m, notifier |-> n]>>

\* What RegisterForNewSessions leaves in registrations_ on success:
\* manager2->AddRef() is done by the action, the record is appended.
PushRegistration(regs, m, n) == Append(regs, [manager2 |-> m, notifier |-> n])

\* The result of RegisterSessionNotification is not looked at.
RegisterSucceeded_Unchecked(registerOk) == TRUE

\* if (SUCCEEDED(hr)) after manager2->RegisterSessionNotification(notifier)
RegisterSucceeded(registerOk) == registerOk

\* RegisterForNewSessions(manager2), then SafeRelease(&device) and ++i.
\* new SessionNotifier() has count 1; a platform that accepts the notifier
\* subscribes it and AddRefs it (rc). The code then either keeps its
\* reference in a new record, with manager2->AddRef(), or releases it.
RegisterForNewSessions(t) ==
  /\ pc[t] = "register"
  /\ LET e == manager2[t]
         n == Len(ref_count_) + 1
     IN \E registerOk \in BOOLEAN :
          LET rc == IF registerOk THEN AddRef(Append(ref_count_, 1), n)
                                  ELSE Append(ref_count_, 1)
          IN /\ subs' = IF registerOk THEN subs \cup {[mgr |-> e, notifier |-> n]}
                                      ELSE subs
             /\ IF RegisterSucceeded(registerOk)
                  THEN /\ ref_count_' = rc
                       /\ mgrRef' = [mgrRef EXCEPT ![e] = @ + 1]
                       /\ registrations_' = PushRegistration(registrations_, e, n)
                       /\ call' = [call EXCEPT ![t].registered = @ \cup {e},
                                               ![t].snapshot = {}]
                       /\ UNCHANGED <<deleted, anyFailure>>
                  ELSE /\ ref_count_' = Release(rc, n)
                       /\ deleted' = deleted \cup DeletedBy(rc, n)
                       /\ call' = [call EXCEPT ![t].refused = @ \cup {e},
                                               ![t].snapshot = {}]
                       /\ anyFailure' = TRUE
                       /\ UNCHANGED <<mgrRef, registrations_>>
  /\ held' = [held EXCEPT ![t] = @ - 1]
  /\ manager2' = [manager2 EXCEPT ![t] = None]
  /\ idx' = [idx EXCEPT ![t] = @ + 1]
  /\ pc' = [pc EXCEPT ![t] = "device"]
  /\ UNCHANGED <<mutex_, com_initialized_, lifecycle, platVars, initCalls,
                 initReturned, enumerated, atDestroy, teardown>>
  /\ UNCHANGED sessionHeld
  /\ UNCHANGED comCalls
  /\ UNCHANGED qi

\* The end of the loop: SafeRelease(&collection), SafeRelease(&enumerator).
SetupDone(t) ==
  /\ pc[t] = "device"
  /\ idx[t] > NumEndpoints
  /\ held' = [held EXCEPT ![t] = @ - 2]
  /\ pc' = [pc EXCEPT ![t] = "return"]
  /\ UNCHANGED <<mutex_, com_initialized_, registrations_, lifecycle, idx,
                 manager2, mgrRef, ref_count_, deleted, subs, platVars, histVars>>
  /\ UNCHANGED sessionHeld
  /\ UNCHANGED comCalls
  /\ UNCHANGED qi

\* Initialize returns: the lock_guard unlocks.
InitializeReturn(t) ==
  /\ pc[t] = "return"
  /\ mutex_' = None
  /\ pc' = [pc EXCEPT ![t] = "idle"]
  /\ idx' = [idx EXCEPT ![t] = 0]
  /\ initReturned' = initReturned + 1
  /\ call' = [call EXCEPT ![t] = NoCall]
  /\ UNCHANGED <<com_initialized_, registrations_, lifecycle, manager2, held,
                 mgrRef, ref_count_, deleted, subs, platVars, initCalls,
                 anyFailure, enumerated, atDestroy, teardown>>
  /\ UNCHANGED sessionHeld
  /\ UNCHANGED comCalls
  /\ UNCHANGED qi

\* ---------------------------------------------------------- the destructor
\* ~AudioDuckingManager(): lock_guard. The owner destroys the object when no
\* call on it is in progress.
Destroy(t) ==
  /\ lifecycle = "alive"
  /\ \A u \in Threads : pc[u] = "idle"
  /\ LockFree(mutex_)
  /\ mutex_' = t
  /\ lifecycle' = "destroying"
  /\ idx' = [idx EXCEPT ![t] = 1]
  /\ pc' = [pc EXCEPT ![t] = "dtor"]
  /\ atDestroy' = registrations_
  /\ UNCHANGED <<com_initialized_, registrations_, manager2, held, mgrRef,
                 ref_count_, deleted, subs, platVars, initCalls, initReturned,
                 call, anyFailure, enumerated, teardown>>
  /\ UNCHANGED sessionHeld
  /\ UNCHANGED comCalls
  /\ UNCHANGED qi

\* The loop ends after its first turn.
AllProcessed_AfterFirst(i, regs) == i > Len(regs) \/ i > 1

\* for (auto& r : registrations_): the loop is over when every record had
\* its turn.
AllProcessed(i, regs) == i > Len(regs)

\* The null test of the notifier inverted.
HasBothHandles_Inverted(r) == r.manager2 # None /\ r.notifier = None

\* if (r.manager2 && r.notifier)
HasBothHandles(r) == r.manager2 # None /\ r.notifier # None

\* r.manager2->UnregisterSessionNotification(r.notifier), when both handles
\* are set. The platform drops the subscription and its reference to the
\* notifier, and invokes it no more; a call already made runs on.
DtorUnregister(t) ==
  /\ pc[t] = "dtor"
  /\ ~AllProcessed(idx[t], registrations_)
  /\ LET r == registrations_[idx[t]]
         sub == [mgr |-> r.manager2, notifier |-> r.notifier]
     IN IF HasBothHandles(r)
          THEN /\ subs' = subs \ {sub}
               /\ IF sub \in subs
                    THEN /\ ref_count_' = Release(ref_count_, r.notifier)
                         /\ deleted' = deleted \cup DeletedBy(ref_count_, r.notifier)
                    ELSE UNCHANGED <<ref_count_, deleted>>
               /\ pending' = SelectSeq(pending, LAMBDA cb : cb.notifier # r.notifier)
               /\ teardown' = Append(teardown, [op |-> "Unregister", reg |-> idx[t],
                                                manager2 |-> r.manager2,
                                                notifier |-> r.notifier])
          ELSE UNCHANGED <<subs, ref_count_, deleted, pending, teardown>>
  /\ pc' = [pc EXCEPT ![t] = "dtor_notifier"]
  /\ UNCHANGED <<mutex_, com_initialized_, registrations_, lifecycle, idx,
                 manager2, held, mgrRef, sessions, running, delivered,
                 initCalls, initReturned, call, anyFailure, enumerated, atDestroy>>
  /\ UNCHANGED sessionHeld
  /\ UNCHANGED comCalls
  /\ UNCHANGED qi

\* SafeRelease(&r.notifier)
DtorReleaseNotifier(t) ==
  /\ pc[t] = "dtor_notifier"
  /\ LET r == registrations_[idx[t]]
     IN IF r.notifier # None
          THEN /\ ref_count_' = Release(ref_count_, r.notifier)
               /\ deleted' = deleted \cup DeletedBy(ref_count_, r.notifier)
               /\ registrations_' = [registrations_ EXCEPT ![idx[t]].notifier = None]
               /\ teardown' = Append(teardown, [op |-> "ReleaseNotifier", reg |-> idx[t],
                                                manager2 |-> r.manager2,
                                                notifier |-> r.notifier])
          ELSE UNCHANGED <<ref_count_, deleted, registrations_, teardown>>
  /\ pc' = [pc EXCEPT ![t] = "dtor_manager"]
  /\ UNCHANGED <<mutex_, com_initialized_, lifecycle, idx, manager2, held,
                 mgrRef, subs, platVars, initCalls, initReturned, call, anyFailure, enumerated, atDestroy>>
  /\ UNCHANGED sessionHeld
  /\ UNCHANGED comCalls
  /\ UNCHANGED qi

\* SafeRelease(&r.manager2), and the loop goes to the next record
DtorReleaseManager(t) ==
  /\ pc[t] = "dtor_manager"
  /\ LET r == registrations_[idx[t]]
     IN IF r.manager2 # None
          THEN /\ mgrRef' = [mgrRef EXCEPT ![r.manager2] = @ - 1]
               /\ registrations_' = [registrations_ EXCEPT ![idx[t]].manager2 = None]
               /\ teardown' = Append(teardown, [op |-> "ReleaseManager", reg |-> idx[t],
                                                manager2 |-> r.manager2,
                                                notifier |-> None])
          ELSE UNCHANGED <<mgrRef, registrations_, teardown>>
  /\ idx' = [idx EXCEPT ![t] = @ + 1]
  /\ pc' = [pc EXCEPT ![t] = "dtor"]
  /\ UNCHANGED <<mutex_, com_initialized_, lifecycle, manager2, held,
                 ref_count_, deleted, subs, platVars, initCalls, initReturned, call, anyFailure, enumerated, atDestroy>>
  /\ UNCHANGED sessionHeld
  /\ UNCHANGED comCalls
  /\ UNCHANGED qi

\* registrations_.clear()
DtorClear(t) ==
  /\ pc[t] = "dtor"
  /\ AllProcessed(idx[t], registrations_)
  /\ registrations_' = <<>>
  /\ teardown' = Append(teardown, [op |-> "clear", reg |-> None,
                                   manager2 |-> None, notifier |-> None])
  /\ pc' = [pc EXCEPT ![t] = "dtor_com"]
  /\ UNCHANGED <<mutex_, com_initialized_, lifecycle, idx, manager2, held,
                 mgrRef, ref_count_, deleted, subs, platVars, initCalls,
                 initReturned, call, anyFailure, enumerated, atDestroy>>
  /\ UNCHANGED sessionHeld
  /\ UNCHANGED comCalls
  /\ UNCHANGED qi

\* if (com_initialized_) { ::CoUninitialize(); com_initialized_ = false; }
\* and the lock_guard unlocks: the object is gone.
DtorCoUninitialize(t) ==
  /\ pc[t] = "dtor_com"
  /\ IF com_initialized_
       THEN /\ com_initialized_' = FALSE
            /\ teardown' = Append(teardown, [op |-> "CoUninitialize", reg |-> None,
                                             manager2 |-> None, notifier |-> None])
            /\ comCalls' = Append(comCalls, [op |-> "CoUninitialize", thread |-> t])
       ELSE UNCHANGED <<com_initialized_, teardown, comCalls>>
  /\ mutex_' = None
  /\ lifecycle' = "destroyed"
  /\ idx' = [idx EXCEPT ![t] = 0]
  /\ pc' = [pc EXCEPT ![t] = "idle"]
  /\ UNCHANGED <<registrations_, manager2, held, mgrRef, ref_count_, deleted,
                 subs, platVars, initCalls, initReturned, call, anyFailure, enumerated, atDestroy>>
  /\ UNCHANGED sessionHeld
  /\ UNCHANGED qi

\* ------------------------------------------------------------ the platform
\* The notifiers subscribed to e's container, in the order they subscribed
\* (notifiers are numbered as they are created).
RECURSIVE Ascending(_)
Ascending(S) ==
  IF S = {} THEN <<>>
  ELSE LET m == CHOOSE x \in S : \A y \in S : x <= y
       IN <<m>> \o Ascending(S \ {m})

Subscribers(e) == Ascending({x.notifier : x \in {y \in subs : y.mgr = e}})

\* Some Initialize call is between ApplyOptOutToExistingSessions(manager2)
\* and RegisterForNewSessions(manager2) for endpoint e's container.
InGap(e) == \E t \in Threads : pc[t] = "register" /\ manager2[t] = e

\* A process opens an audio session on endpoint e; the platform queues
\* OnSessionCreated for every notifier subscribed to e's container.
CreateSession(e, k) ==
  /\ lifecycle # "destroyed"
  /\ Len(sessions) < MaxSessions
  /\ sessions' = Append(sessions, [ep |-> e, pid |-> k.pid, access |-> k.access,
                                   pref |-> FALSE,
                                   gap |-> InGap(e) /\ k.pid = MyPid /\ k.access = "ok"])
  /\ pending' = pending \o
       [j \in 1..Len(Subscribers(e)) |->
          [notifier |-> Subscribers(e)[j], session |-> Len(sessions) + 1]]
  /\ UNCHANGED <<coordVars, running, delivered, histVars>>
  /\ UNCHANGED sessionHeld
  /\ UNCHANGED comCalls
  /\ UNCHANGED qi

\* The platform's notification thread takes the next queued callback and
\* calls notifier->OnSessionCreated(session), one call at a time.
InvokeOnSessionCreated ==
  /\ pending # <<>>
  /\ running = {}
  /\ pending' = Tail(pending)
  /\ running' = {Head(pending)}
  /\ UNCHANGED <<coordVars, sessions, delivered, histVars>>
  /\ UNCHANGED sessionHeld
  /\ UNCHANGED comCalls
  /\ UNCHANGED qi

\* SessionNotifier::OnSessionCreated runs and returns S_OK. It takes no lock.
OnSessionCreated(cb) ==
  /\ cb \in running
  /\ sessions' = [sessions EXCEPT ![cb.session] = OnSessionCreatedBody(@)]
  /\ \E qiOk \in BOOLEAN :
       /\ PidReadable(sessions[cb.session]) => qiOk
       /\ sessionHeld' = [sessionHeld EXCEPT ![NotifyThread] =
            NetHandles(@, AcquiredByCallback(qiOk), ReleasedByCallback(qiOk))]
  /\ running' = running \ {cb}
  /\ delivered' = delivered \cup {cb}
  /\ UNCHANGED <<coordVars, pending, histVars>>
  /\ UNCHANGED comCalls
  /\ UNCHANGED qi

\* ------------------------------------------------------------------ claims
\* A session reports process id p: its IAudioSessionControl2 and its process
\* id can be read, and the id is p.
Reports(i, p) == sessions[i].access = "ok" /\ sessions[i].pid = p
Unreadable(i) == sessions[i].access # "ok"
OptedOut(i) == sessions[i].pref

\* C1: ownership filter. For every session whose process id the synchronous
\* pass of Initialize has just read (the sessions GetSession returned for the
\* endpoint in hand), and for every session an OnSessionCreated callback has
\* returned for, the opt-out preference is set if and only if the id read
\* equals the current process id.
C1_OwnershipFilter ==
  /\ \A t \in Threads : \A i \in call[t].snapshot :
       ~Unreadable(i) => (OptedOut(i) <=> Reports(i, MyPid))
  /\ \A cb \in delivered :
       ~Unreadable(cb.session) => (OptedOut(cb.session) <=> Reports(cb.session, MyPid))

\* A pass has just run over an own and a foreign session of one endpoint,
\* and a callback has returned for an own session.
C1_Witness ==
  \E t \in Threads :
    /\ pc[t] = "register"
    /\ \E i, j \in call[t].snapshot :
         /\ Reports(i, MyPid) /\ OptedOut(i)
         /\ Reports(j, ForeignPid) /\ ~OptedOut(j)
    /\ \E cb \in delivered : Reports(cb.session, MyPid) /\ OptedOut(cb.session)

\* C2: non-interference. No step of Initialize, of a callback or of the
\* destructor changes a session that another process owns or whose owning
\* process id cannot be read.
C2_NonInterference ==
  [][\A i \in DOMAIN sessions :
       (Unreadable(i) \/ Reports(i, ForeignPid)) => sessions'[i] = sessions[i]]_vars

\* A pass has just run over a foreign session and a callback has returned for
\* a session whose process id cannot be read; both are as they were created.
C2_Witness ==
  \E t \in Threads :
    /\ pc[t] = "register"
    /\ initReturned >= 1
    /\ \E i \in call[t].snapshot : Reports(i, ForeignPid) /\ ~OptedOut(i)
    /\ \E cb \in delivered : Unreadable(cb.session) /\ ~OptedOut(cb.session)

\* C3: every Initialize call after the first is a no-op: once a call has
\* returned, no step of a later call changes the registration set, the
\* subscriptions, a reference count or a session.
C3_LaterInitializeIsNoOp ==
  [][(initReturned >= 1 /\ lifecycle = "alive" /\ lifecycle' = "alive") =>
       /\ registrations_' = registrations_
       /\ subs' = subs
       /\ mgrRef' = mgrRef
       /\ ref_count_' = ref_count_
       /\ (pc' # pc => sessions' = sessions)]_vars

\* C4: teardown completeness (subscriptions). Once the coordinator is
\* destroyed no notifier it created is subscribed to any container.
C4_NoSubscriptionAfterDestroy ==
  lifecycle = "destroyed" => subs = {}

\* Destroyed after calls that registered at least two notifiers and had a
\* subscription refused or an endpoint skipped.
C4_Witness ==
  /\ lifecycle = "destroyed"
  /\ initReturned = MaxInit
  /\ anyFailure
  /\ Len(atDestroy) >= 2
  /\ Len(ref_count_) > Len(atDestroy)

\* C5: teardown completeness (handles). Once the coordinator is destroyed the
\* reference count of every session container is back at its baseline.
C5_ContainerRefsAtBaseline ==
  lifecycle = "destroyed" => \A e \in Endpoints : mgrRef[e] = 0

\* C6: late session opt-out. A session that reports the current process id
\* and for which the OnSessionCreated callback of a subscribed notifier has
\* run is opted out, whatever Initialize did or did not do since.
C6_LateSessionOptOut ==
  \A cb \in delivered : Reports(cb.session, MyPid) => OptedOut(cb.session)

\* One Initialize call was made and has returned; a session of the current
\* process created on an endpoint it subscribed to (after that endpoint's
\* pass) was opted out by the callback.
C6_Witness ==
  /\ initCalls = 1
  /\ initReturned = 1
  /\ lifecycle = "alive"
  /\ \E cb \in delivered :
       /\ Reports(cb.session, MyPid) /\ OptedOut(cb.session)
       /\ [mgr |-> sessions[cb.session].ep, notifier |-> cb.notifier] \in subs

\* The records the call of thread t has appended so far.
NewRegistrations(t) ==
  SubSeq(registrations_, call[t].regs0 + 1, Len(registrations_))
NewSubscriptions(t, e) == {x \in subs \ call[t].subs0 : x.mgr = e}

\* C7: partial endpoint failure. When a call that got the endpoint collection
\* returns, every endpoint was either skipped (Item or Activate failed) or
\* activated; a skipped endpoint has no new record and no new subscription; an
\* activated endpoint whose subscription was accepted has exactly one new
\* record, whose notifier is its one new subscription; and right after the
\* pass over an activated endpoint every session GetSession returned that
\* reports the current process id is opted out.
C7_PartialEndpointFailure ==
  \A t \in Threads :
    /\ pc[t] = "register" =>
         \A i \in call[t].snapshot : Reports(i, MyPid) => OptedOut(i)
    /\ (pc[t] = "return" /\ call[t].unavailable = "no") =>
         /\ call[t].skipped \cup call[t].activated = Endpoints
         /\ call[t].skipped \cap call[t].activated = {}
         /\ \A e \in call[t].skipped :
              /\ \A k \in DOMAIN NewRegistrations(t) : NewRegistrations(t)[k].manager2 # e
              /\ NewSubscriptions(t, e) = {}
         /\ \A e \in call[t].activated \ call[t].refused :
              /\ Cardinality({k \in DOMAIN NewRegistrations(t) :
                                NewRegistrations(t)[k].manager2 = e}) = 1
              /\ Cardinality(NewSubscriptions(t, e)) = 1
              /\ \A k \in DOMAIN NewRegistrations(t) :
                   NewRegistrations(t)[k].manager2 = e =>
                     [mgr |-> e, notifier |-> NewRegistrations(t)[k].notifier]
                       \in NewSubscriptions(t, e)

\* A call returns in which one endpoint was skipped and another activated and
\* subscribed, with an own session of the activated endpoint opted out.
C7_Witness ==
  \E t \in Threads :
    /\ pc[t] = "return"
    /\ call[t].skipped # {}
    /\ call[t].registered # {}
    /\ call[t].refused = {}
    /\ \E i \in DOMAIN sessions :
         /\ sessions[i].ep \in call[t].registered
         /\ Reports(i, MyPid) /\ OptedOut(i)
         /\ \A cb \in delivered : cb.session # i

TeardownOps(k, op) ==
  {i \in DOMAIN teardown : teardown[i].op = op /\ teardown[i].reg = k}

C9_NoCallbackDuringTeardown ==
  \A t \in Threads :
    pc[t] = "dtor_notifier" =>
      \A cb \in running : cb.notifier # atDestroy[idx[t]].notifier

\* C10: total failure. When a call finds the subsystem unavailable
\* (CoCreateInstance or EnumAudioEndpoints fails) it returns with the
\* registration set, the subscriptions, the container and notifier counts as
\* it found them and no transient handle held; and as long as no call got the
\* endpoint collection there is no registration, no subscription, no
\* container reference and no opted-out session.
C10_TotalFailure ==
  /\ \A t \in Threads :
       (pc[t] = "return" /\ call[t].unavailable # "no") =>
         /\ Len(registrations_) = call[t].regs0
         /\ subs = call[t].subs0
         /\ mgrRef = call[t].mgrRef0
         /\ Len(ref_count_) = call[t].notifiers0
         /\ held[t] = 0
  /\ ~enumerated =>
       /\ registrations_ = <<>>
       /\ subs = {}
       /\ \A e \in Endpoints : mgrRef[e] = 0
       /\ \A i \in DOMAIN sessions : ~OptedOut(i)

\* A call is about to return after the enumerator was created and
\* EnumAudioEndpoints failed, with a session of the current process present
\* and not opted out.
C10_Witness ==
  \E t \in Threads :
    /\ pc[t] = "return"
    /\ call[t].unavailable = "EnumAudioEndpoints"
    /\ ~enumerated
    /\ \E i \in DOMAIN sessions : Reports(i, MyPid) /\ ~OptedOut(i)

\* The notifiers the registration set holds a reference to.
HeldNotifiers == {registrations_[i].notifier : i \in DOMAIN registrations_} \ {None}
SubscribedNotifiers == {x.notifier : x \in subs}

\* C11: notifier lifetime. A notifier is destroyed exactly when its count is
\* zero, the count never goes below zero (Release is not called on a
\* destroyed notifier), and it is at least 1 while the notifier is subscribed
\* or held by a record: the platform's reference and the record's reference
\* are counted separately, so a notifier that is both has count 2.
C11_NotifierLifetime ==
  /\ \A n \in DOMAIN ref_count_ :
       /\ ref_count_[n] >= 0
       /\ n \in deleted <=> ref_count_[n] = 0
  /\ deleted \subseteq DOMAIN ref_count_
  /\ \A n \in HeldNotifiers \cup SubscribedNotifiers :
       ref_count_[n] >= (IF n \in HeldNotifiers THEN 1 ELSE 0)
                          + (IF n \in SubscribedNotifiers THEN 1 ELSE 0)
  /\ \A n \in HeldNotifiers \cup SubscribedNotifiers : ref_count_[n] >= 1

\* The destructor is at work: one notifier was destroyed when its
\* subscription was refused, one record's notifier was unsubscribed and then
\* destroyed by the release of the record's reference, one record's notifier
\* is unsubscribed and still held (count 1), and one is still subscribed and
\* held (count 2).
C11_Witness ==
  /\ lifecycle = "destroying"
  /\ \E n \in deleted : \A k \in DOMAIN atDestroy : atDestroy[k].notifier # n
  /\ \E n \in deleted : \E k \in DOMAIN atDestroy : atDestroy[k].notifier = n
  /\ \E n \in HeldNotifiers \ SubscribedNotifiers : ref_count_[n] = 1
  /\ \E n \in HeldNotifiers \cap SubscribedNotifiers : ref_count_[n] = 2

\* The live subscriptions of record r's notifier on record r's container.
SubscriptionsOf(r) == {x \in subs : x.mgr = r.manager2 /\ x.notifier = r.notifier}

\* C12: registration invariant. From construction until the destructor
\* starts, every record has a container and a notifier, both non-null, and
\* exactly one live subscription of that notifier on that container; and a
\* subscription is removed only by the destructor's
\* UnregisterSessionNotification step, never by a step of Initialize, of a
\* callback or of the platform.
C12_RegistrationInvariant ==
  /\ [](lifecycle = "alive" =>
          \A i \in DOMAIN registrations_ :
            /\ registrations_[i].manager2 # None
            /\ registrations_[i].notifier # None
            /\ Cardinality(SubscriptionsOf(registrations_[i])) = 1)
  /\ [][~(subs \subseteq subs') =>
          \E t \in Threads : /\ lifecycle = "destroying"
                             /\ pc[t] = "dtor" /\ pc'[t] = "dtor_notifier"
                             /\ subs \ subs' =
                                  SubscriptionsOf(registrations_[idx[t]])]_vars

\* The destructor has removed the subscription of its first record after two
\* calls, one of which had a subscription refused, left at least two records
\* and callbacks of their notifiers ran.
C12_Witness ==
  /\ lifecycle = "destroying"
  /\ anyFailure
  /\ Len(atDestroy) >= 2
  /\ delivered # {}
  /\ Cardinality(subs) = Len(atDestroy) - 1
  /\ \E t \in Threads : pc[t] = "dtor_notifier" /\ idx[t] = 1

\* Thread t's RegisterForNewSessions step, in which the platform refused the
\* notifier the step created (it has no subscription afterwards).
RefusedStep(t) ==
  /\ pc[t] = "register" /\ pc'[t] # "register"
  /\ \A x \in subs' : x.notifier # Len(ref_count_) + 1

\* C13: subscription failure. When RegisterSessionNotification fails for an
\* endpoint, the step creates one notifier and leaves it destroyed with count
\* zero, appends no record and adds no subscription, and leaves every session
\* as the pass left it; for the rest of the call the endpoint has no new
\* record and no new subscription; and no step ever takes an opt-out back.
C13_SubscriptionFailure ==
  /\ [][\A t \in Threads : RefusedStep(t) =>
          LET n == Len(ref_count_) + 1 IN
          /\ Len(ref_count_') = n
          /\ ref_count_'[n] = 0
          /\ deleted' = deleted \cup {n}
          /\ registrations_' = registrations_
          /\ subs' = subs
          /\ mgrRef' = mgrRef
          /\ sessions' = sessions
          /\ \A i \in call[t].snapshot : Reports(i, MyPid) => OptedOut(i)
          /\ manager2[t] \in call'[t].refused]_vars
  /\ [](\A t \in Threads : \A e \in call[t].refused :
          /\ \A k \in DOMAIN NewRegistrations(t) : NewRegistrations(t)[k].manager2 # e
          /\ NewSubscriptions(t, e) = {})
  /\ [][\A i \in DOMAIN sessions : OptedOut(i) => sessions'[i].pref]_vars

\* A subscription has just been refused for an endpoint on which the pass had
\* opted out a session of the current process; the notifier is destroyed and
\* the session is still opted out.
C13_Witness ==
  \E t \in Threads :
    /\ pc[t] = "device"
    /\ idx[t] - 1 \in call[t].refused
    /\ Len(ref_count_) \in deleted
    /\ \A x \in subs : x.notifier # Len(ref_count_)
    /\ \E i \in DOMAIN sessions :
         /\ sessions[i].ep = idx[t] - 1
         /\ Reports(i, MyPid) /\ OptedOut(i)
         /\ \A cb \in delivered : cb.session # i

\* Operation op on record k is in the destructor's log before position i.
DoneBefore(k, op, i) == \E j \in TeardownOps(k, op) : j < i
RecordOps == {"Unregister", "ReleaseNotifier", "ReleaseManager"}

\* C19: teardown ordering. In the order the destructor worked: a record's
\* notifier is released after it was unsubscribed, its container is released
\* after the unsubscription and after the notifier's release; clear() comes
\* after the three operations of every record, and CoUninitialize after
\* clear() and after every record's operations.
C19_TeardownOrdering ==
  /\ \A k \in DOMAIN atDestroy :
       /\ \A i \in TeardownOps(k, "ReleaseNotifier") : DoneBefore(k, "Unregister", i)
       /\ \A i \in TeardownOps(k, "ReleaseManager") :
            DoneBefore(k, "Unregister", i) /\ DoneBefore(k, "ReleaseNotifier", i)
  /\ \A i \in DOMAIN teardown :
       teardown[i].op \in {"clear", "CoUninitialize"} =>
         /\ \A k \in DOMAIN atDestroy : \A op \in RecordOps : DoneBefore(k, op, i)
         /\ \A j \in DOMAIN teardown : teardown[j].op \in RecordOps => j < i
  /\ \A i, j \in DOMAIN teardown :
       (teardown[i].op = "CoUninitialize" /\ teardown[j].op = "clear") => j < i

\* The destructor has torn the context down after working through at least
\* two records.
C19_Witness ==
  /\ lifecycle = "destroyed"
  /\ Len(atDestroy) >= 2
  /\ teardown[Len(teardown)].op = "CoUninitialize"

\* C17: transient handles. A thread that is not inside Initialize, or is
\* about to return from it, holds no device enumerator, collection or device;
\* inside the loop it holds the enumerator and the collection, plus the
\* device between Item and SafeRelease(&device); the session pass and the
\* callback leave no session enumerator, control or control-2 held by the
\* thread that ran them; no count of held handles is negative (nothing is
\* released twice); and the records hold containers and notifiers only.
C17_TransientHandlesReleased ==
  /\ \A t \in Threads :
       /\ pc[t] \in {"idle", "return", "setup"} => held[t] = 0
       /\ pc[t] = "device" => held[t] = 2
       /\ pc[t] = "register" => held[t] = 3
       /\ pc[t] \in {"dtor", "dtor_notifier", "dtor_manager", "dtor_com"} => held[t] = 0
  /\ \A c \in Callers : sessionHeld[c] = NoHandles
  /\ \A i \in DOMAIN registrations_ :
       DOMAIN registrations_[i] = {"manager2", "notifier"}

\* A call is about to return: it skipped an endpoint, its pass opted out a
\* session of the current process, and a callback has returned for a session
\* whose process id cannot be read.
C17_Witness ==
  \E t \in Threads :
    /\ pc[t] = "return"
    /\ call[t].unavailable = "no"
    /\ call[t].skipped # {}
    /\ \E i \in DOMAIN sessions :
         /\ Reports(i, MyPid) /\ OptedOut(i)
         /\ \A cb \in delivered : cb.session # i
    /\ \E cb \in delivered : Unreadable(cb.session)

\* The positions of operation op in the instance's threading-context calls.
ComCalls(op) == {i \in DOMAIN comCalls : comCalls[i].op = op}

\* Thread t is inside Initialize, past the CoInitializeEx step.
InSetup(t) == pc[t] \in {"setup", "device", "register", "return"}

\* C14: threading-context balance. CoInitializeEx succeeds through the
\* instance at most once, however many Initialize calls are made; the
\* instance calls CoUninitialize only in its destructor, after that success
\* and at most once; once destroyed it has called it exactly once if the
\* initialization succeeded and never otherwise; a call whose CoInitializeEx
\* failed (RPC_E_CHANGED_MODE or anything else) leaves the flag unset; and
\* every Initialize call, whatever CoInitializeEx answered, goes on to
\* SetupForAllRenderDevices.
C14_ThreadingContextBalance ==
  /\ [](/\ Cardinality(ComCalls("CoInitializeEx")) <= 1
        /\ Cardinality(ComCalls("CoUninitialize")) <= 1
        /\ \A i \in ComCalls("CoUninitialize") :
             \E j \in ComCalls("CoInitializeEx") : j < i
        /\ lifecycle # "destroyed" =>
             /\ ComCalls("CoUninitialize") = {}
             /\ com_initialized_ <=> ComCalls("CoInitializeEx") # {}
        /\ lifecycle = "destroyed" =>
             /\ ~com_initialized_
             /\ Cardinality(ComCalls("CoUninitialize"))
                  = Cardinality(ComCalls("CoInitializeEx")))
  /\ [][\A t \in Threads :
          (pc[t] = "idle" /\ pc'[t] # "idle" /\ lifecycle' = "alive") =>
            /\ pc'[t] = "setup"
            /\ com_initialized_ => UNCHANGED <<com_initialized_, comCalls>>]_vars

\* Destroyed with the context torn down once, after two calls that both
\* registered every endpoint and of which one initialized the context.
C14_Witness ==
  /\ lifecycle = "destroyed"
  /\ initReturned = MaxInit
  /\ Cardinality(ComCalls("CoInitializeEx")) = 1
  /\ Cardinality(ComCalls("CoUninitialize")) = 1
  /\ Len(atDestroy) = MaxInit * NumEndpoints

\* C15: per-thread threading context. A thread that is inside Initialize
\* while the instance's flag is set is a thread on which the instance's
\* CoInitializeEx succeeded (with the flag unset the call has just made its
\* own CoInitializeEx call on that thread); and the instance's CoUninitialize
\* runs on the thread on which its CoInitializeEx succeeded.
C15_PerThreadContext ==
  /\ \A t \in Threads :
       (InSetup(t) /\ com_initialized_) =>
         \E j \in ComCalls("CoInitializeEx") : comCalls[j].thread = t
  /\ \A i \in ComCalls("CoUninitialize") :
       \E j \in ComCalls("CoInitializeEx") : comCalls[j].thread = comCalls[i].thread

\* No call is in progress and no callback is queued or running.
Quiescent ==
  /\ lifecycle = "alive"
  /\ \A t \in Threads : pc[t] = "idle"
  /\ pending = <<>>
  /\ running = {}

\* C16: no coverage gap. Once the calls have returned and every queued
\* callback has run, a session of the current process that was created on an
\* endpoint after the pass over its sessions and before
\* RegisterSessionNotification, on an endpoint that has a subscription, is
\* opted out.
C16_NoCoverageGap ==
  Quiescent =>
    \A i \in DOMAIN sessions :
      (/\ sessions[i].gap
       /\ Reports(i, MyPid)
       /\ \E x \in subs : x.mgr = sessions[i].ep) => OptedOut(i)

\* C18: mutual exclusion. A thread inside Initialize or the destructor holds
\* mutex_ and no other thread is inside either; the call in progress has
\* appended, after the records it found, one record for each endpoint it
\* registered, in endpoint order, and nothing else is there; registrations_
\* and com_initialized_ are changed only by the thread that holds the lock,
\* a living object's records are only ever appended to, one at a time; and
\* CoInitializeEx succeeds at most once.
C18_MutualExclusion ==
  /\ [](/\ \A t \in Threads : pc[t] # "idle" <=> mutex_ = t
        /\ \A t \in Threads : InSetup(t) =>
             /\ Len(registrations_) = call[t].regs0 + Cardinality(call[t].registered)
             /\ \A k \in DOMAIN NewRegistrations(t) :
                  /\ NewRegistrations(t)[k].manager2 \in call[t].registered
                  /\ \A l \in DOMAIN NewRegistrations(t) :
                       k < l => NewRegistrations(t)[k].manager2
                                  < NewRegistrations(t)[l].manager2
        /\ Cardinality(ComCalls("CoInitializeEx")) <= 1)
  /\ [][(registrations_' # registrations_ \/ com_initialized_' # com_initialized_) =>
          /\ \E t \in Threads : mutex_' = t \/ mutex_ = t
          /\ \A t \in Threads : (mutex_ # None /\ mutex_ # t) => pc'[t] = pc[t]
          /\ lifecycle' = "alive" =>
               /\ Len(registrations_') <= Len(registrations_) + 1
               /\ SubSeq(registrations_', 1, Len(registrations_)) = registrations_]_vars

\* A call made on one thread, after a call on the other thread initialized
\* the context and left records, is about to return having appended a record
\* for every endpoint.
C18_Witness ==
  \E t \in Threads :
    /\ pc[t] = "return"
    /\ call[t].regs0 >= 1
    /\ call[t].registered = Endpoints
    /\ Len(comCalls) = 1 /\ comCalls[1].thread # t

\* C20: notifier capability query. A QueryInterface call with a null ppv
\* returns E_POINTER and changes neither a reference count nor the caller's
\* pointer; with a non-null ppv it returns S_OK exactly for IUnknown and
\* IAudioSessionNotification, then the caller's pointer is the notifier and
\* its count is one higher, and otherwise it returns E_NOINTERFACE, the
\* caller's pointer is null and no count changes. No call changes another
\* notifier's count or destroys a notifier.
C20_QueryInterface ==
  [][(qi' # qi \/ \E m \in DOMAIN ref_count_ : ref_count_'[m] > ref_count_[m]) =>
       LET q == qi'
           n == q.notifier
       IN /\ deleted' = deleted
          /\ q.hr \in {"S_OK", "E_NOINTERFACE", "E_POINTER"}
          /\ q.hr = "E_POINTER" <=> q.ppvNull
          /\ q.hr = "S_OK" <=>
               (~q.ppvNull /\ q.riid \in {"IUnknown", "IAudioSessionNotification"})
          /\ q.hr = "S_OK" =>
               /\ q.out = n
               /\ ref_count_' = [ref_count_ EXCEPT ![n] = ref_count_[n] + 1]
          /\ q.hr = "E_NOINTERFACE" => q.out = None /\ ref_count_' = ref_count_
          /\ q.hr = "E_POINTER" => q.out = qi.out /\ ref_count_' = ref_count_]_vars

\* The last call had a null ppv: it returned E_POINTER and left the pointer
\* that an earlier successful call on the same notifier had set, and the
\* notifier's count is above the one it was created with.
C20_Witness ==
  /\ qi.hr = "E_POINTER"
  /\ qi.out = qi.notifier
  /\ qi.notifier # None
  /\ ref_count_[qi.notifier] > 1

Next ==
  \/ \E t \in Threads : Initialize(t)
  \/ \E t \in Threads : SetupForAllRenderDevices(t)
  \/ \E t \in Threads : SetupDevice(t)
  \/ \E t \in Threads : RegisterForNewSessions(t)
  \/ \E t \in Threads : SetupDone(t)
  \/ \E t \in Threads : InitializeReturn(t)
  \/ \E t \in Threads : Destroy(t)
  \/ \E t \in Threads : DtorUnregister(t)
  \/ \E t \in Threads : DtorReleaseNotifier(t)
  \/ \E t \in Threads : DtorReleaseManager(t)
  \/ \E t \in Threads : DtorClear(t)
  \/ \E t \in Threads : DtorCoUninitialize(t)
  \/ \E e \in Endpoints, k \in SessionKinds : CreateSession(e, k)
  \/ InvokeOnSessionCreated
  \/ \E cb \in running : OnSessionCreated(cb)

Spec == Init /\ [][Next]_vars

\* The notifier's IUnknown methods, called by holders of references.
NextIUnknown ==
  \/ NewSessionNotifier
  \/ \E n \in 1..MaxNotifiers, riid \in InterfaceIds, ppvNull \in BOOLEAN :
       QueryInterface(n, riid, ppvNull)
  \/ \E n \in 1..MaxNotifiers : ReleaseReference(n)

SpecIUnknown == Init /\ [][NextIUnknown]_vars
====
